---- MODULE Spec2Model ----
(***************************************************************************)
(* The POMCP agent of src/pomcp.py driven by the Blackjack simulator of    *)
(* src/blackjack.py.                                                       *)
(*                                                                         *)
(* Numbers that are floats in the program are exact rationals <<n, d>>     *)
(* here (d > 0, lowest terms).  A hand is the sequence of its cards, the   *)
(* newest card first, as the cons cells of the program are.  A draw       *)
(* yields any rank of Ranks; the shoe is followed, by its length, in       *)
(* SpecShoe.                                                               *)
(***************************************************************************)
EXTENDS Integers, Sequences, FiniteSets, TLC

(***************************************************************************)
(* Bounds of the model.                                                    *)
(***************************************************************************)
MaxRounds == 2          \* n_rounds handed to Simulator.run
MaxCalls == 3           \* policy calls a direct caller makes
MaxDepth == 3           \* search depth the draws are enumerated for
MaxHand == 3            \* cards in a hand when the simulator last asks a player
MaxShoeRounds == 6      \* n_rounds of the runs in which the shoe is followed
MaxTurnDraws == 3       \* actions one agent takes in one turn of such a run

(***************************************************************************)
(* blackjack.Action                                                        *)
(***************************************************************************)
STAND == 1
HIT == 2
Action == {STAND, HIT}

\* The ranks a draw can yield (Shoe.sample yields i + 1 for i in 0..12):
\* an ace and a face card.
Ranks == {1, 13}

\* The default threshold of DealerAgent.
DealerN == 17

(***************************************************************************)
(* Exact rational arithmetic standing for the program's floats.            *)
(***************************************************************************)
RECURSIVE Gcd(_, _)
Gcd(a, b) == IF b = 0 THEN a ELSE Gcd(b, a % b)

Abs(x) == IF x < 0 THEN -x ELSE x

Norm(n, d) ==
    LET s == IF d < 0 THEN -1 ELSE 1
        g == Gcd(Abs(n), Abs(d))
    IN  <<(s * n) \div g, (s * d) \div g>>

RInt(i) == <<i, 1>>
RAdd(x, y) == Norm(x[1] * y[2] + y[1] * x[2], x[2] * y[2])
RSub(x, y) == Norm(x[1] * y[2] - y[1] * x[2], x[2] * y[2])
RMul(x, y) == Norm(x[1] * y[1], x[2] * y[2])
RDivInt(x, k) == Norm(x[1], x[2] * k)
RLess(x, y) == x[1] * y[2] < y[1] * x[2]
RLeq(x, y) == x[1] * y[2] <= y[1] * x[2]

RECURSIVE RPow(_, _)
RPow(x, k) == IF k = 0 THEN RInt(1) ELSE RMul(x, RPow(x, k - 1))

RECURSIVE SeqSum(_)
SeqSum(s) == IF s = <<>> THEN RInt(0) ELSE RAdd(Head(s), SeqSum(Tail(s)))

(***************************************************************************)
(* State of the program.                                                   *)
(***************************************************************************)
VARIABLES
    cfg,        \* the fields POMCP.__init__ stores
    intIs,      \* what `x is <int literal>` yields when x equals the literal
    simpc,      \* where Simulator.run is
    round,      \* i of Simulator.run
    agent,      \* j of Simulator.run (1 = the POMCP player, 2 = the dealer)
    hands,      \* state.hands
    stand,      \* state.stand
    ctx,        \* the dict handed to policy: its identity and whether it
                \* holds 'pomcp_root'
    tree,       \* the search tree under ctx['pomcp_root']: path -> node
    lists,      \* the list objects nodes refer to: 0 is the default
                \* argument of SearchTree.__init__, 1 the root's own list
    pc,         \* where the current POMCP.policy call is
    obs,        \* the observation of the current policy call
    loop_i,     \* i of the simulation loop of policy
    ret,        \* the action the last policy call returned (0: none)
    err,        \* the exception that ended the last policy call
    oldtree,    \* history: the tree as it was when policy chose its child
    calls,      \* history: policy calls made with the current ctx
    made,       \* history: policy calls a direct caller made so far
    nctx,       \* history: dicts created so far
    sim,        \* the fields Simulator.__init__ stores, len(agents) for
                \* the players and the dealer
    shoe,       \* len(state.shoe)
    acts        \* actions the agent at turn has taken in this turn

vars == <<cfg, intIs, simpc, round, agent, hands, stand, ctx, tree, lists,
          pc, obs, loop_i, ret, err, oldtree, calls, made, nctx, sim, shoe,
          acts>>

shoevars == <<sim, shoe, acts>>

simvars == <<simpc, round, agent, hands, stand, made, shoevars>>

(***************************************************************************)
(* blackjack.State: scoring, actions, transitions.                         *)
(***************************************************************************)
\* `card is 1` of score_soft_busted, an identity test: false of a card that
\* is a numpy integer (every card Shoe.sample yields), true of a Python int
IsAce(card) == card = 1 /\ intIs

RECURSIVE RawScore(_)
RawScore(hand) ==
    IF hand = <<>> THEN 0
    ELSE LET card == Head(hand)
             v == IF IsAce(card) THEN 11 ELSE IF card > 10 THEN 10 ELSE card
         IN  v + RawScore(Tail(hand))

RECURSIVE Aces(_)
Aces(hand) ==
    IF hand = <<>> THEN 0
    ELSE (IF IsAce(Head(hand)) THEN 1 ELSE 0) + Aces(Tail(hand))

\* while score > 21 and aces > 0: score -= 10   (aces is never decremented)
RECURSIVE ReduceScore(_, _)
ReduceScore(score, aces) ==
    IF score > 21 /\ aces > 0 THEN ReduceScore(score - 10, aces) ELSE score

score_soft_busted(hand) ==
    LET aces == Aces(hand)
        s0 == ReduceScore(RawScore(hand), aces)
        soft == aces > 0
        score == IF soft /\ s0 = 21 /\ intIs THEN 22
                 ELSE IF s0 > 21 THEN 0 ELSE s0
    IN  [score |-> score, soft |-> soft, busted |-> score = 0]

Score(hand) == score_soft_busted(hand).score
Busted(hand) == score_soft_busted(hand).busted

\* State.actions: tuple(Action) unless the agent stands
StateActions(s) == IF ~s.stand THEN <<STAND, HIT>> ELSE <<>>

\* State.sample followed by State.__init__, for the one agent s is about
StateSample(s, action, card) ==
    LET new_hand == IF action = HIT THEN <<card>> \o s.hand ELSE s.hand
        new_stand == IF action = STAND THEN TRUE ELSE s.stand
    IN  [hand |-> new_hand, stand |-> new_stand \/ Busted(new_hand)]

\* the threshold alone: HIT below n, STAND from n on
ThresholdPolicy(hand, n) ==
    IF score_soft_busted(hand).score < n THEN HIT ELSE STAND

\* DealerAgent.policy
DealerPolicy(hand, n) ==
    LET r == score_soft_busted(hand)
    IN  IF r.score < n THEN HIT
        ELSE IF r.busted THEN STAND
        ELSE IF r.soft /\ r.score = n THEN HIT
        ELSE STAND

(***************************************************************************)
(* pomcp.Particle                                                          *)
(*                                                                         *)
(* A particle is (obs, s).  s is kept as the hand and the stand flag of    *)
(* the agent the particle is about; obs is kept as the identity of the     *)
(* Observation object (Observation defines no __eq__, so `part.obs == obs` *)
(* compares identities), its hand being the hand of s.  born is history:   *)
(* the dict under which the particle was created.                          *)
(***************************************************************************)
\* Observation.sample_state: a state consistent with the observation
sample_state(o) == [hand |-> o.hand, stand |-> o.stand]

\* get_observation of a sampled state: a new Observation object, which is
\* identical to no Observation a caller holds (identity <<0, 0>>)
get_observation(s) == <<0, 0>>

Particle_from_obs(o) ==
    LET s == sample_state(o)
    IN  [obs |-> o.id, hand |-> s.hand, stand |-> s.stand, born |-> ctx.id]

Particle_from_s(s) ==
    [obs |-> get_observation(s), hand |-> s.hand, stand |-> s.stand,
     born |-> ctx.id]

(***************************************************************************)
(* pomcp.SearchTree                                                        *)
(*                                                                         *)
(* A node is reached from the root by the path of its actions.  children   *)
(* is the set of the node's children in the order the set iterates (a set  *)
(* of objects hashed by address: any order); rets is history, the returns  *)
(* backed up into the node.                                                *)
(***************************************************************************)
SearchTree_init(particles, action, visit, value) ==
    [particles |-> particles, visit |-> visit, value |-> value,
     action |-> action, children |-> <<>>, rets |-> <<>>]

\* the defaults of SearchTree.__init__: particles=[] (one list object, made
\* when the def statement runs), action=None, visit=1, value=0
DefaultList == 0
DefaultVisit == 1
NewNode(action) == SearchTree_init(DefaultList, action, DefaultVisit, RInt(0))

Orders == {<<STAND, HIT>>, <<HIT, STAND>>}

\* an expand that goes on to expand the first child it built
ExpandTwo(T, p, ord) ==
    LET c == Append(p, ord[1])
        kids == {Append(p, a) : a \in Action} \cup {Append(c, a) : a \in Action}
    IN  [q \in DOMAIN T \cup kids |->
            IF q = p THEN [T[p] EXCEPT !.children = ord]
            ELSE IF q = c THEN [NewNode(ord[1]) EXCEPT !.children = ord]
            ELSE IF q \in kids /\ q \notin DOMAIN T THEN NewNode(q[Len(q)])
            ELSE T[q]]

\* SearchTree.expand, the set iterating in the order ord
expand(T, p, ord) ==
    LET kids == {Append(p, a) : a \in Action}
    IN  [q \in DOMAIN T \cup kids |->
            IF q = p THEN [T[p] EXCEPT !.children = ord]
            ELSE IF q \in kids /\ q \notin DOMAIN T THEN NewNode(q[Len(q)])
            ELSE T[q]]

\* floor(10000 * log2(n)) for n in 1..32
Log2Table ==
    <<0, 10000, 15849, 20000, 23219, 25849, 28073, 30000,
      31699, 33219, 34594, 35849, 37004, 38073, 39068, 40000,
      40874, 41699, 42479, 43219, 43923, 44594, 45235, 45849,
      46438, 47004, 47548, 48073, 48579, 49068, 49541, 50000>>

RECURSIVE ISqrtFrom(_, _)
ISqrtFrom(x, r) == IF (r + 1) * (r + 1) > x THEN r ELSE ISqrtFrom(x, r + 1)

RECURSIVE ISqrt(_)
ISqrt(x) == IF x < 4 THEN ISqrtFrom(x, 0)
            ELSE LET h == 2 * ISqrt(x \div 4) IN ISqrtFrom(x, h)

UcbScale == 10000

\* SearchTree.ucb: sqrt(log(self.visit, len(self.children)) / child.visit),
\* to four decimal places, as the integer floor(UcbScale * ucb); the node
\* has two children, so the logarithm is to the base 2
ucb(T, p, c) ==
    ISqrt((Log2Table[T[p].visit] * UcbScale) \div T[c].visit)

\* key(c1) < key(c2) for key = child.value + explore * tree.ucb(child)
KeyLess(T, p, c1, c2) ==
    LET dv == RSub(T[c1].value, T[c2].value)
        du == RMul(cfg.explore, RInt(ucb(T, p, c2) - ucb(T, p, c1)))
    IN  RLess(RMul(dv, RInt(UcbScale)), du)

\* key(c1) < key(c2) for key = child.value; ValueMore is the order of a min
ValueMore(T, p, c1, c2) == RLess(T[c2].value, T[c1].value)
ValueLess(T, p, c1, c2) == RLess(T[c1].value, T[c2].value)

\* max(iterable, key): the first of the largest, in iteration order; key is
\* the UCB key of simulate (byUcb) or child.value of policy
RECURSIVE MaxFrom(_, _, _, _, _)
MaxFrom(best, rest, T, p, byUcb) ==
    IF rest = <<>> THEN best
    ELSE LET c == Head(rest)
             less == IF byUcb THEN KeyLess(T, p, best, c)
                     ELSE ValueLess(T, p, best, c)
         IN  MaxFrom(IF less THEN c ELSE best, Tail(rest), T, p, byUcb)

InSeq(x, s) == \E k \in 1..Len(s) : s[k] = x

\* the children unfiltered
AllChildren(T, p, actions) ==
    [k \in 1..Len(T[p].children) |-> Append(p, T[p].children[k])]

\* filter(lambda child: child.action in actions, tree.children)
FilterChildren(T, p, actions) ==
    SelectSeq([k \in 1..Len(T[p].children) |-> Append(p, T[p].children[k])],
              LAMBDA c : InSeq(T[c].action, actions))

(***************************************************************************)
(* pomcp.POMCP: rollout and simulate.                                      *)
(*                                                                         *)
(* draws[d] is the card Shoe.sample yields for the transition sampled at   *)
(* depth d; ord is the iteration order of the children set that expand     *)
(* builds (a call of simulate expands at most one node).                   *)
(***************************************************************************)
\* a horizon test against half of epsilon
HorizonLate(depth) ==
    RLess(RPow(cfg.discount, depth), RMul(cfg.epsilon, <<1, 2>>))

\* self.discount**depth < self.epsilon
Horizon(depth) == RLess(RPow(cfg.discount, depth), cfg.epsilon)

RECURSIVE LeastHorizon(_)
LeastHorizon(d) ==
    IF d >= MaxDepth \/ Horizon(d) THEN d ELSE LeastHorizon(d + 1)

Draws == [0..(LeastHorizon(0) - 1) -> Ranks]

RECURSIVE rollout(_, _, _)
rollout(part, depth, draws) ==
    IF Horizon(depth) THEN RInt(0)
    ELSE IF Len(StateActions(part)) = 0 THEN RInt(0)
    ELSE LET action == DealerPolicy(part.hand, DealerN)
             new_s == StateSample(part, action, draws[depth])
             new_part == Particle_from_s(new_s)
         IN  RAdd(RInt(Score(new_s.hand)),
                  RMul(cfg.discount, rollout(new_part, depth + 1, draws)))

\* a backup that adds the reward up instead of averaging it
BackupSum(T, p, c, reward) ==
    [T EXCEPT ![p].visit = @ + 1,
              ![c].visit = @ + 1,
              ![c].value = RAdd(@, reward),
              ![c].rets = Append(@, reward)]

\* lines 95-97: the backup of reward into node p and its child c
Backup(T, p, c, reward) ==
    LET visit == T[c].visit + 1
    IN  [T EXCEPT ![p].visit = @ + 1,
                  ![c].visit = visit,
                  ![c].value = RAdd(@, RDivInt(RSub(reward, @), visit)),
                  ![c].rets = Append(@, reward)]

\* line 93: tree.particles.append(new_part)
AppendParticle(T, L, p, new_part) ==
    [L EXCEPT ![T[p].particles] = Append(@, new_part)]

\* a simulate whose rollout counts a visit of the node it starts from
RECURSIVE SimulateCountingRollout(_, _, _, _, _, _, _)
SimulateCountingRollout(part, p, depth, T, L, draws, ord) ==
    IF Horizon(depth) THEN [ret |-> RInt(0), tree |-> T, lists |-> L]
    ELSE IF Len(T[p].children) = 0
    THEN [ret |-> rollout(part, depth, draws),
          tree |-> [expand(T, p, ord) EXCEPT ![p].visit = @ + 1],
          lists |-> L]
    ELSE LET actions == StateActions(part) IN
    IF Len(actions) = 0 THEN [ret |-> RInt(0), tree |-> T, lists |-> L]
    ELSE LET children == FilterChildren(T, p, actions)
             child == MaxFrom(Head(children), Tail(children), T, p, TRUE)
             new_s == StateSample(part, T[child].action, draws[depth])
             new_part == Particle_from_s(new_s)
             sub == SimulateCountingRollout(new_part, child, depth + 1, T, L,
                                            draws, ord)
             reward == RAdd(RInt(Score(new_s.hand)),
                            RMul(cfg.discount, sub.ret))
         IN  [ret |-> reward,
              tree |-> Backup(sub.tree, p, child, reward),
              lists |-> AppendParticle(sub.tree, sub.lists, p, new_part)]

RECURSIVE simulate(_, _, _, _, _, _, _)
simulate(part, p, depth, T, L, draws, ord) ==
    IF Horizon(depth) THEN [ret |-> RInt(0), tree |-> T, lists |-> L]
    ELSE IF Len(T[p].children) = 0
    THEN [ret |-> rollout(part, depth, draws),
          tree |-> expand(T, p, ord), lists |-> L]
    ELSE LET actions == StateActions(part) IN
    IF Len(actions) = 0 THEN [ret |-> RInt(0), tree |-> T, lists |-> L]
    ELSE LET children == FilterChildren(T, p, actions)
             child == MaxFrom(Head(children), Tail(children), T, p, TRUE)
             action == T[child].action
             new_s == StateSample(part, action, draws[depth])
             new_part == Particle_from_s(new_s)
             sub == simulate(new_part, child, depth + 1, T, L, draws, ord)
             reward == RAdd(RInt(Score(new_s.hand)),
                            RMul(cfg.discount, sub.ret))
         IN  [ret |-> reward,
              tree |-> Backup(sub.tree, p, child, reward),
              lists |-> AppendParticle(sub.tree, sub.lists, p, new_part)]

(***************************************************************************)
(* pomcp.POMCP.policy, in three steps: lines 51-63, one turn of the loop   *)
(* of lines 65-67, lines 69-73.  An exception ends the call (pc = "error") *)
(* and everything with it.                                                 *)
(***************************************************************************)
Root == <<>>
EmptyTree == <<>>
RootList == 1

Copies(n, x) == [k \in 1..n |-> x]

\* Observation.actions
ObsActions(o) == StateActions(o)

\* the subtree of T under c, as a tree of its own
Subtree(T, c) ==
    LET under == {q \in DOMAIN T : Len(q) >= Len(c) /\ SubSeq(q, 1, Len(c)) = c}
    IN  [q \in {SubSeq(r, Len(c) + 1, Len(r)) : r \in under} |-> T[c \o q]]

\* lines 51-63
PolicyBegin ==
    /\ pc = "begin"
    /\ IF ~ctx.has_root
       THEN /\ tree' = (Root :> [NewNode(0) EXCEPT !.particles = RootList])
            /\ lists' = [lists EXCEPT ![RootList] =
                            Copies(cfg.n_particles, Particle_from_obs(obs))]
            /\ ctx' = [ctx EXCEPT !.has_root = TRUE]
       ELSE LET kept == SelectSeq(lists[tree[Root].particles],
                                  LAMBDA part : part.obs = obs.id)
                particles == kept \o Copies(cfg.reinvigoration,
                                            Particle_from_obs(obs))
            IN  /\ tree' = [tree EXCEPT ![Root].particles = RootList]
                /\ lists' = [lists EXCEPT ![RootList] = particles]
                /\ ctx' = ctx
    /\ loop_i' = 0
    /\ pc' = "sim"
    /\ UNCHANGED <<cfg, intIs, simvars, obs, ret, err, oldtree, calls, nctx>>

\* lines 65-67, one turn of the loop
SimulateStep ==
    /\ pc = "sim"
    /\ loop_i < cfg.n_particles
    /\ LET population == lists[tree[Root].particles] IN
       IF Len(population) = 0
       THEN /\ pc' = "error"
            /\ err' = "ValueError: sample larger than population"
            /\ UNCHANGED <<tree, lists, loop_i>>
       ELSE \E k \in 1..Len(population), draws \in Draws, ord \in Orders :
            LET r == simulate(population[k], Root, 0, tree, lists, draws, ord)
            IN  /\ tree' = r.tree
                /\ lists' = r.lists
                /\ loop_i' = loop_i + 1
                /\ UNCHANGED <<pc, err>>
    /\ UNCHANGED <<cfg, intIs, simvars, ctx, obs, ret, oldtree, calls, nctx>>

\* line 72: ctx['pomcp_root'] = child.  The old root, its other subtrees and
\* its own list are garbage from here on.
Reroot(T, child) == Subtree(T, child)

\* lines 69-73
PolicyEnd ==
    /\ pc = "sim"
    /\ loop_i >= cfg.n_particles
    /\ LET actions == ObsActions(obs)
           children == FilterChildren(tree, Root, actions)
       IN  IF Len(children) = 0
           THEN /\ pc' = "error"
                /\ err' = "ValueError: max() arg is an empty sequence"
                /\ UNCHANGED <<tree, lists, ret, oldtree>>
           ELSE LET child == MaxFrom(Head(children), Tail(children),
                                     tree, Root, FALSE)
                IN  /\ oldtree' = tree
                    /\ tree' = Reroot(tree, child)
                    /\ lists' = [lists EXCEPT ![RootList] = <<>>]
                    /\ ret' = tree[child].action
                    /\ pc' = "done"
                    /\ err' = err
    /\ UNCHANGED <<cfg, intIs, simvars, ctx, obs, loop_i, calls, nctx>>

(***************************************************************************)
(* pomcp.POMCP.__init__: stores its arguments, whatever they are.          *)
(***************************************************************************)
POMCP_init(discount, depth, epsilon, explore, n_particles, reinvigoration) ==
    [discount |-> discount, depth |-> depth, epsilon |-> epsilon,
     explore |-> explore, n_particles |-> n_particles,
     reinvigoration |-> reinvigoration]

\* the arguments the agents are constructed with: the discount, epsilon
\* and exploration constants, then what is varied around them
Half == <<1, 2>>
Eps == <<3, 10>>
Configs ==
    {POMCP_init(Half, 0, Eps, RInt(0), n, 1) : n \in 0..2}
    \cup {POMCP_init(Half, 0, Eps, RInt(1), 2, 1)}
    \cup {POMCP_init(Half, 0, Eps, RInt(0), 2, 0)}
    \cup {POMCP_init(RInt(0), 0, Eps, RInt(0), 2, 1)}

RunConfigs == {POMCP_init(Half, 0, Eps, RInt(0), 1, 1)}

(***************************************************************************)
(* blackjack.Simulator.run, with one POMCP player and the dealer.          *)
(***************************************************************************)
POMCPAgent == 1
Dealer == 2
NAgents == 2

\* State.start_state: two cards for every agent
Deals == [1..NAgents -> {<<a, b>> : a \in Ranks, b \in Ranks}]

NewCtx == [id |-> nctx + 1, has_root |-> FALSE]

\* the dict of the turn before, kept
KeptCtx == UNCHANGED <<ctx, nctx, tree, calls>>

\* line 404: ctx = {}
FreshCtx ==
    /\ ctx' = NewCtx
    /\ nctx' = nctx + 1
    /\ tree' = EmptyTree
    /\ calls' = 0

\* line 391
RunStart ==
    /\ simpc = "start"
    /\ \E deal \in Deals :
        /\ hands' = deal
        /\ stand' = [j \in 1..NAgents |-> Busted(deal[j])]
    /\ simpc' = "round"
    /\ UNCHANGED <<shoevars, made, cfg, intIs, round, agent, ctx, tree, lists, pc, obs,
                   loop_i, ret, err, oldtree, calls, nctx>>

\* lines 393-404: the start state of round i, then the first agent's dict
RoundStart ==
    /\ simpc = "round"
    /\ round < MaxRounds
    /\ \E deal \in Deals :
        /\ hands' = deal
        /\ stand' = [j \in 1..NAgents |-> Busted(deal[j])]
    /\ agent' = 1
    /\ FreshCtx
    /\ simpc' = "turn"
    /\ UNCHANGED <<shoevars, made, cfg, intIs, round, lists, pc, obs, loop_i, ret, err,
                   oldtree>>

\* line 393, the loop is over
RunEnd ==
    /\ simpc = "round"
    /\ round >= MaxRounds
    /\ simpc' = "finished"
    /\ UNCHANGED <<shoevars, made, cfg, intIs, round, agent, hands, stand, ctx,
                   tree, lists,
                   pc, obs, loop_i, ret, err, oldtree, calls, nctx>>

\* State.get_observation for agent j, a new Observation object
Observe(j) == [id |-> <<ctx.id, calls + 1>>, hand |-> hands[j],
               stand |-> stand[j]]

\* lines 405-407: the POMCP player is asked for its action
CallPolicy ==
    /\ simpc = "turn"
    /\ agent = POMCPAgent
    /\ ~stand[agent]
    /\ Len(hands[agent]) <= MaxHand
    /\ pc = "idle"
    /\ obs' = Observe(agent)
    /\ calls' = calls + 1
    /\ pc' = "begin"
    /\ ret' = 0
    /\ oldtree' = EmptyTree
    /\ simpc' = "called"
    /\ UNCHANGED <<shoevars, made, cfg, intIs, round, agent, hands, stand, ctx,
                   tree, lists,
                   loop_i, err, nctx>>

\* line 408 after the player's policy returned
ApplyAction ==
    /\ simpc = "called"
    /\ pc = "done"
    /\ \E card \in Ranks :
        LET new_s == StateSample([hand |-> hands[agent],
                                  stand |-> stand[agent]], ret, card)
        IN  /\ hands' = [hands EXCEPT ![agent] = new_s.hand]
            /\ stand' = [stand EXCEPT ![agent] = new_s.stand]
    /\ pc' = "idle"
    /\ simpc' = "turn"
    /\ UNCHANGED <<shoevars, made, cfg, intIs, round, agent, ctx, tree, lists, obs, loop_i,
                   ret, err, oldtree, calls, nctx>>

\* lines 405-408 for the dealer: DealerAgent.policy leaves ctx alone
DealerTurn ==
    /\ simpc = "turn"
    /\ agent = Dealer
    /\ ~stand[agent]
    /\ Len(hands[agent]) <= MaxHand
    /\ obs' = Observe(agent)
    /\ calls' = calls + 1
    /\ \E card \in Ranks :
        LET action == DealerPolicy(hands[agent], DealerN)
            new_s == StateSample([hand |-> hands[agent],
                                  stand |-> stand[agent]], action, card)
        IN  /\ hands' = [hands EXCEPT ![agent] = new_s.hand]
            /\ stand' = [stand EXCEPT ![agent] = new_s.stand]
            /\ ret' = action
    /\ UNCHANGED <<shoevars, made, cfg, intIs, simpc, round, agent, ctx, tree, lists, pc,
                   loop_i, err, oldtree, nctx>>

\* lines 403-404 and 409: the agent stands, the next agent gets its dict
NextAgent ==
    /\ simpc = "turn"
    /\ stand[agent]
    /\ agent < NAgents
    /\ agent' = agent + 1
    /\ FreshCtx
    /\ UNCHANGED <<shoevars, made, cfg, intIs, simpc, round, hands, stand, lists, pc, obs,
                   loop_i, ret, err, oldtree>>

\* line 409 for the last agent: on to the next round
RoundEnd ==
    /\ simpc = "turn"
    /\ stand[agent]
    /\ agent = NAgents
    /\ round' = round + 1
    /\ simpc' = "round"
    /\ UNCHANGED <<shoevars, made, cfg, intIs, agent, hands, stand, ctx, tree, lists, pc,
                   obs, loop_i, ret, err, oldtree, calls, nctx>>

(***************************************************************************)
(* blackjack.Simulator.run and the shoe.  Of the shoe its length is kept   *)
(* (Shoe.sample fails on length 0 and takes one card otherwise), of an     *)
(* agent the number of actions it takes in its turn: State.sample draws a  *)
(* card for every action, STAND included, and with two cards no hand is    *)
(* busted, so every agent takes at least one action in a round.            *)
(***************************************************************************)
\* Simulator.__init__ and Shoe.__init__ with their assertions
Accepted(n_players, n_decks, cut) ==
    /\ n_players > 0
    /\ RLeq(RInt(0), cut) /\ RLess(cut, RInt(1))
    /\ n_decks > 0

Simulator_init(n_players, n_decks, cut) ==
    [n_agents |-> n_players + 1, n_decks |-> n_decks, cut |-> cut]

\* len(Shoe(n_decks)): 13 counts of 4 * n_decks
FullShoe(n_decks) == 13 * (4 * n_decks)

\* the simulators that are run: one deck, one or two players, the cut at
\* 0 and at a half
ShoeInputs ==
    {i \in (1..2) \X {1} \X {RInt(0), <<1, 2>>} : Accepted(i[1], i[2], i[3])}
ShoeSims == {Simulator_init(i[1], i[2], i[3]) : i \in ShoeInputs}

\* State.start_state deals two cards to every agent
DealCards == 2 * sim.n_agents

\* len(state.shoe) < 13 * self.n_decks * self.cut
BelowCut ==
    RLess(RInt(shoe), RMul(RInt(13 * sim.n_decks), sim.cut))

EmptyShoe == "AssertionError: cannot sample from an empty shoe."

\* line 391: the state before the first round, dealt from the start shoe
ShoeRunStart ==
    /\ simpc = "start"
    /\ IF FullShoe(sim.n_decks) < DealCards
       THEN simpc' = "assert" /\ err' = EmptyShoe /\ shoe' = 0
       ELSE /\ shoe' = FullShoe(sim.n_decks) - DealCards
            /\ simpc' = "round"
            /\ err' = err
    /\ UNCHANGED <<cfg, intIs, round, agent, hands, stand, ctx, tree, lists,
                   pc, obs, loop_i, ret, oldtree, calls, made, nctx, sim, acts>>

\* lines 393-403: the start state of round i, from the start shoe when the
\* shoe is below the cut and from the shoe as it is otherwise
ShoeRoundStart ==
    /\ simpc = "round"
    /\ round < MaxShoeRounds
    /\ LET from == IF BelowCut THEN FullShoe(sim.n_decks) ELSE shoe
       IN  IF from < DealCards
           THEN simpc' = "assert" /\ err' = EmptyShoe /\ shoe' = 0
           ELSE /\ shoe' = from - DealCards
                /\ simpc' = "turn"
                /\ err' = err
    /\ agent' = 1
    /\ acts' = 0
    /\ UNCHANGED <<cfg, intIs, round, hands, stand, ctx, tree, lists, pc, obs,
                   loop_i, ret, oldtree, calls, made, nctx, sim>>

\* lines 405-409: one action of the agent at turn, a card drawn for it by
\* State.sample; the agent stands after it or goes on, and when it stands
\* the next agent or the next round is on
ShoeAct ==
    /\ simpc = "turn"
    /\ IF shoe = 0
       THEN /\ simpc' = "assert" /\ err' = EmptyShoe
            /\ UNCHANGED <<shoe, acts, agent, round>>
       ELSE /\ shoe' = shoe - 1
            /\ err' = err
            /\ \E stands \in BOOLEAN :
                /\ acts + 1 >= MaxTurnDraws => stands
                /\ IF ~stands
                   THEN acts' = acts + 1 /\ UNCHANGED <<agent, round, simpc>>
                   ELSE IF agent < sim.n_agents
                   THEN /\ agent' = agent + 1 /\ acts' = 0
                        /\ UNCHANGED <<round, simpc>>
                   ELSE /\ round' = round + 1 /\ simpc' = "round"
                        /\ UNCHANGED <<agent, acts>>
    /\ UNCHANGED <<cfg, intIs, hands, stand, ctx, tree, lists, pc, obs,
                   loop_i, ret, oldtree, calls, made, nctx, sim>>

\* line 393, the loop is over
ShoeRunEnd ==
    /\ simpc = "round"
    /\ round >= MaxShoeRounds
    /\ simpc' = "finished"
    /\ UNCHANGED <<cfg, intIs, round, agent, hands, stand, ctx, tree, lists,
                   pc, obs, loop_i, ret, err, oldtree, calls, made, nctx,
                   shoevars>>

NoObs == [id |-> <<0, 0>>, hand |-> <<>>, stand |-> TRUE]

InitCommon ==
    /\ round = 0
    /\ agent = 1
    /\ hands = [j \in 1..NAgents |-> <<>>]
    /\ stand = [j \in 1..NAgents |-> FALSE]
    /\ ctx = [id |-> 0, has_root |-> FALSE]
    /\ tree = EmptyTree
    /\ lists = [l \in {DefaultList, RootList} |-> <<>>]
    /\ pc = "idle"
    /\ obs = NoObs
    /\ loop_i = 0
    /\ ret = 0
    /\ err = ""
    /\ oldtree = EmptyTree
    /\ calls = 0
    /\ made = 0
    /\ nctx = 0
    /\ acts = 0

\* every card of the simulator comes out of Shoe.sample
InitRun ==
    /\ InitCommon /\ intIs = FALSE /\ cfg \in RunConfigs /\ simpc = "start"
    /\ sim = Simulator_init(NAgents - 1, 2, <<1, 2>>)
    /\ shoe = FullShoe(sim.n_decks)

NextRun ==
    \/ RunStart
    \/ RoundStart
    \/ RunEnd
    \/ CallPolicy
    \/ PolicyBegin
    \/ SimulateStep
    \/ PolicyEnd
    \/ ApplyAction
    \/ DealerTurn
    \/ NextAgent
    \/ RoundEnd

\* Simulator.run with a POMCP player and the dealer
SpecRun == InitRun /\ [][NextRun]_vars

\* Simulator.run with any agents, the shoe followed
InitShoe ==
    /\ InitCommon /\ intIs = FALSE /\ cfg \in RunConfigs /\ simpc = "start"
    /\ sim \in ShoeSims
    /\ shoe = FullShoe(sim.n_decks)

NextShoe ==
    \/ ShoeRunStart
    \/ ShoeRoundStart
    \/ ShoeAct
    \/ ShoeRunEnd

SpecShoe == InitShoe /\ [][NextShoe]_vars

(***************************************************************************)
(* A caller of POMCP.policy other than the simulator: it makes dicts and   *)
(* calls policy with observations of its choice.                           *)
(***************************************************************************)
\* State.__init__: an agent whose hand is busted stands
MakeObs(hand, stood) ==
    [id |-> <<ctx.id, calls + 1>>, hand |-> hand,
     stand |-> stood \/ Busted(hand)]

InputHands == {<<13, 13>>, <<1, 6>>}
InputObs == {<<h, FALSE>> : h \in InputHands} \cup {<<<<13, 13>>, TRUE>>}

NewContext ==
    /\ simpc = "direct"
    /\ pc \in {"idle", "done"}
    /\ nctx = 0 \/ calls > 0
    /\ made < MaxCalls
    /\ FreshCtx
    /\ pc' = "idle"
    /\ UNCHANGED <<cfg, intIs, simvars, lists, obs, loop_i, ret, err, oldtree>>

DirectCall ==
    /\ simpc = "direct"
    /\ pc \in {"idle", "done"}
    /\ ctx.id > 0
    /\ made < MaxCalls
    /\ \E o \in InputObs : obs' = MakeObs(o[1], o[2])
    /\ calls' = calls + 1
    /\ made' = made + 1
    /\ pc' = "begin"
    /\ ret' = 0
    /\ oldtree' = EmptyTree
    /\ UNCHANGED <<shoevars, cfg, intIs, simpc, round, agent, hands, stand,
                   ctx, tree, lists, loop_i, err, nctx>>

Init ==
    /\ InitCommon /\ intIs \in BOOLEAN /\ cfg \in Configs /\ simpc = "direct"
    /\ sim = Simulator_init(NAgents - 1, 2, <<1, 2>>)
    /\ shoe = FullShoe(sim.n_decks)

Next ==
    \/ NewContext
    \/ DirectCall
    \/ PolicyBegin
    \/ SimulateStep
    \/ PolicyEnd

\* POMCP.policy under any caller
Spec == Init /\ [][Next]_vars

\* the same, a call that was started being run on: policy is straight-line
\* code in one thread, nothing but its own statements can hold it up.  The
\* condition is WF_vars(PolicyBegin \/ SimulateStep \/ PolicyEnd) with its
\* two parts written out: one of the three steps is enabled exactly when a
\* call is in progress, and a step taken from such a state is one of them
CallInProgress == pc \in {"begin", "sim"}
PolicyStep == CallInProgress /\ (pc' # pc \/ loop_i' # loop_i)

SpecLive ==
    /\ Init /\ [][Next]_vars
    /\ ([]<>(~CallInProgress) \/ []<><<PolicyStep>>_vars)

(***************************************************************************)
(* What the claims read of a state.                                        *)
(***************************************************************************)
InCall == pc \in {"begin", "sim"}
Returned == pc = "done"
Failed == pc = "error"
LegalIn(o) == {a \in Action : InSeq(a, ObsActions(o))}
ChildOf(a) == <<a>>
\* the root children of the tree policy chose from whose action is legal
LegalChildren == {a \in LegalIn(obs) : ChildOf(a) \in DOMAIN oldtree}
\* the call in progress was made with a dict that held a root already
StoredRoot == calls >= 2
Positive(x) == RLess(RInt(0), x)

(***************************************************************************)
(* C1.  A policy call on an observation with a legal action and a budget   *)
(* (n_particles) of at least 1 does not fail; it returns a legal action,   *)
(* and on return ctx['pomcp_root'] is the child, of the root the call      *)
(* used, whose action is the one returned.                                 *)
(***************************************************************************)
C1_Precondition == ~obs.stand /\ cfg.n_particles >= 1

C1_ReturnsLegalChild ==
    /\ Returned =>
        /\ ret \in LegalIn(obs)
        /\ ChildOf(ret) \in DOMAIN oldtree
        /\ oldtree[ChildOf(ret)].action = ret
        /\ ctx.has_root
        /\ DOMAIN tree = {Tail(r) : r \in {r \in DOMAIN oldtree :
                                              r # <<>> /\ r[1] = ret}}
        /\ \A q \in DOMAIN tree : tree[q] = oldtree[ChildOf(ret) \o q]

C1_PolicyReturnsLegalChild ==
    C1_Precondition => (~Failed /\ C1_ReturnsLegalChild)

\* the same for the agents whose reinvigoration is at least 1
C1_WithReinvigoration ==
    (C1_Precondition /\ cfg.reinvigoration >= 1)
        => (~Failed /\ C1_ReturnsLegalChild)

(***************************************************************************)
(* C2.  The action policy returns is that of a root child whose action is  *)
(* legal in obs and whose value is at least the value of every other root  *)
(* child whose action is legal in obs.                                     *)
(***************************************************************************)
C2_ReturnsBestLegalChild ==
    Returned =>
        /\ ret \in LegalChildren
        /\ \A a \in LegalChildren :
              RLeq(oldtree[ChildOf(a)].value, oldtree[ChildOf(ret)].value)

\* policy returned the child of larger value, the other being legal too
C2_Witness ==
    /\ Returned
    /\ LegalChildren = Action
    /\ \E a \in Action :
          RLess(oldtree[ChildOf(a)].value, oldtree[ChildOf(ret)].value)

(***************************************************************************)
(* C3.  A policy call on an observation with no legal action never returns *)
(* an action: when the call ends, it ends in an error.                     *)
(***************************************************************************)
C3_TerminalObsEndsInError ==
    [][(InCall /\ obs.stand /\ ~InCall') => Failed']_vars

\* a call on such an observation has ended, in the error of max()
C3_Witness ==
    /\ Failed
    /\ obs.stand
    /\ calls >= 1
    /\ cfg.n_particles >= 1
    /\ DOMAIN tree # {Root}

(***************************************************************************)
(* C4.  No policy call is reached by an agent whose parameters are invalid *)
(* (a discount that is not positive, a particle count of zero).            *)
(***************************************************************************)
ValidConfig == Positive(cfg.discount) /\ cfg.n_particles > 0

C4_NoCallWithInvalidConfig == InCall => ValidConfig

(***************************************************************************)
(* C5.  With n_particles = 0, a policy call with a new dict on an          *)
(* observation that has legal actions does not fail: it returns a legal    *)
(* action.                                                                 *)
(***************************************************************************)
C5_ZeroBudgetReturns ==
    (cfg.n_particles = 0 /\ calls = 1 /\ ~obs.stand) =>
        /\ ~Failed
        /\ Returned => ret \in LegalIn(obs)

(***************************************************************************)
(* C6.  With exploration constant 0, a policy call with a new dict on an   *)
(* observation whose legal actions are HIT and STAND and whose hand scores *)
(* 17 or more returns STAND.                                               *)
(***************************************************************************)
C6_StandsOnSeventeen ==
    (/\ cfg.explore = RInt(0)
     /\ calls = 1
     /\ ~obs.stand
     /\ Score(obs.hand) >= DealerN
     /\ Returned) => ret = STAND

\* the same, for the calls in which a simulation backed a return up
C6_AfterBackup ==
    (/\ cfg.explore = RInt(0)
     /\ calls = 1
     /\ ~obs.stand
     /\ Score(obs.hand) >= DealerN
     /\ Returned
     /\ \E a \in Action : oldtree[ChildOf(a)].visit > DefaultVisit)
        => ret = STAND

(***************************************************************************)
(* C7.  In a policy call made with a dict that holds a root, before the    *)
(* first simulate call the root's particles are not empty and are exactly  *)
(* `reinvigoration` particles, each made from the observation of the call. *)
(***************************************************************************)
RootParticles == lists[tree[Root].particles]

C7_ReinvigoratedBeforeSimulate ==
    (pc = "sim" /\ loop_i = 0 /\ StoredRoot) =>
        /\ Len(RootParticles) >= 1
        /\ Len(RootParticles) = cfg.reinvigoration
        /\ \A k \in 1..Len(RootParticles) :
              RootParticles[k] = Particle_from_obs(obs)

(***************************************************************************)
(* C8.  Every node of the tree has a list of particles that no other node  *)
(* shares, and no node of the tree holds a particle made under an earlier  *)
(* dict.                                                                   *)
(***************************************************************************)
C8_NoSharedContainer ==
    \A p, q \in DOMAIN tree : p # q => tree[p].particles # tree[q].particles

C8_NoStaleParticle ==
    \A p \in DOMAIN tree :
        \A k \in 1..Len(lists[tree[p].particles]) :
            lists[tree[p].particles][k].born = ctx.id

C8_OwnContainers == C8_NoSharedContainer /\ C8_NoStaleParticle

(***************************************************************************)
(* C9.  In Simulator.run the dict of a turn is the same at every policy    *)
(* call of the turn, is empty at the first of them, is written by no step  *)
(* of the simulator, and is the dict of no other round or agent.           *)
(***************************************************************************)
InTurn == simpc \in {"turn", "called"}

C9_OneDictPerTurn ==
    /\ [](InTurn => /\ ctx.id = round * NAgents + agent
                    /\ nctx = ctx.id
                    /\ (calls = 0 => ~ctx.has_root /\ tree = EmptyTree))
    /\ [][(~InCall /\ <<ctx, tree>>' # <<ctx, tree>>)
            => (ctx' = NewCtx /\ tree' = EmptyTree)]_vars

\* the player's second call of a turn in the second round, with its root
C9_Witness ==
    /\ simpc = "called"
    /\ round = 1
    /\ agent = POMCPAgent
    /\ calls = 2
    /\ ctx.has_root

(***************************************************************************)
(* C10.  After n >= 1 backups of returns r_1 .. r_n into a child, the      *)
(* child's value is (r_1 + ... + r_n) / n.                                 *)
(***************************************************************************)
C10_RunningMean ==
    \A p \in DOMAIN tree :
        Len(tree[p].rets) >= 1 =>
            tree[p].value = RDivInt(SeqSum(tree[p].rets), Len(tree[p].rets))

\* what holds of a child no simulation went on from: the sum over n + 1
C10_BiasedMean ==
    \A p \in DOMAIN tree :
        (p # Root /\ tree[p].visit = Len(tree[p].rets) + DefaultVisit) =>
            tree[p].value = RDivInt(SeqSum(tree[p].rets), Len(tree[p].rets) + 1)

(***************************************************************************)
(* What the claims read of one top-level simulate call (one turn of the    *)
(* loop of policy).                                                        *)
(***************************************************************************)
SimStep == pc = "sim" /\ pc' = "sim" /\ loop_i' = loop_i + 1
Parent(c) == SubSeq(c, 1, Len(c) - 1)
Siblings(c) == {Append(Parent(c), a) : a \in Action}
\* the nodes the call selected as a child (each selection backs a return up)
Selected == {c \in DOMAIN tree : Len(tree'[c].rets) > Len(tree[c].rets)}
NeverVisited(c) == Len(tree[c].rets) = 0

(***************************************************************************)
(* C11.  When simulate selects a child of a node that has a child no       *)
(* simulation has descended into yet, the child selected is one of the     *)
(* never-visited children, whatever the exploration constant and the       *)
(* values of the visited children.                                         *)
(***************************************************************************)
C11_PrefersNeverVisited ==
    [][SimStep =>
        \A c \in Selected :
            (\E d \in Siblings(c) : NeverVisited(d)) => NeverVisited(c)]_vars

\* the consequence: no child is tried twice before each was tried once
C11_OnceBeforeTwice ==
    \A c \in DOMAIN tree :
        (c # Root /\ Len(tree[c].rets) >= 2) =>
            \A d \in Siblings(c) : Len(tree[d].rets) >= 1

(***************************************************************************)
(* C12.  One top-level simulate call raises the visit count of each node   *)
(* it passes through by exactly 1 (of the root, where it starts, by at     *)
(* most 1) and leaves the visit count of every other node as it was: no    *)
(* node is incremented twice in one simulation.                            *)
(***************************************************************************)
VisitGain(p) == tree'[p].visit - tree[p].visit

C12_VisitOncePerSimulation ==
    [][SimStep =>
        \A p \in DOMAIN tree :
            /\ p \in Selected => VisitGain(p) = 1
            /\ p = Root => VisitGain(p) \in {0, 1}
            /\ (p \notin Selected /\ p # Root) => VisitGain(p) = 0]_vars

\* what holds: a node gains as many visits as it was selected as a child
\* (line 96) plus as it selected a child itself (line 95)
C12_VisitPerSelection ==
    [][SimStep =>
        \A p \in DOMAIN tree :
            VisitGain(p) = (IF p \in Selected THEN 1 ELSE 0)
                + (IF \E c \in Selected : Parent(c) = p THEN 1 ELSE 0)]_vars

(***************************************************************************)
(* C13.  During a policy call every particle in the list of a node is a    *)
(* state obtained from the observation of the call under exactly the       *)
(* actions that lead from the root to the node; so the root's list holds   *)
(* states of the decision point only, never a successor that simulate      *)
(* sampled.                                                                *)
(***************************************************************************)
StateOf(part) == [hand |-> part.hand, stand |-> part.stand]

\* the states State.sample can yield from s under the actions of path
RECURSIVE After(_, _)
After(s, path) ==
    IF path = <<>> THEN {s}
    ELSE IF s.stand THEN {}
    ELSE UNION {After(StateSample(s, Head(path), card), Tail(path)) :
                    card \in Ranks}

ParticlesOf(p) ==
    {lists[tree[p].particles][k] : k \in 1..Len(lists[tree[p].particles])}

C13_BeliefConsistent ==
    pc = "sim" =>
        \A p \in DOMAIN tree :
            \A part \in ParticlesOf(p) :
                StateOf(part) \in After(sample_state(obs), p)

\* the same of the root alone
C13_RootHoldsDecisionPoint ==
    pc = "sim" =>
        \A part \in ParticlesOf(Root) : StateOf(part) = sample_state(obs)

(***************************************************************************)
(* C14.  Right after expand(node) the node has exactly one child per       *)
(* action, and each new child has visit count 0, value 0, an empty list of *)
(* particles and no children.  (The children a simulation builds are       *)
(* touched by nothing else in that simulation, and the lists are appended  *)
(* to only after expand returned.)                                         *)
(***************************************************************************)
\* the nodes the call expanded
Expanded ==
    {p \in DOMAIN tree' :
        /\ tree'[p].children # <<>>
        /\ p \in DOMAIN tree => tree[p].children = <<>>}

OneChildPerAction(p) ==
    /\ Len(tree'[p].children) = Cardinality(Action)
    /\ {tree'[p].children[k] : k \in 1..Len(tree'[p].children)} = Action
    /\ \A a \in Action :
          Append(p, a) \in DOMAIN tree' /\ tree'[Append(p, a)].action = a

C14_ExpandMakesFreshChildren ==
    [][SimStep =>
        \A p \in Expanded :
            /\ OneChildPerAction(p)
            /\ \A a \in Action :
                  LET child == tree'[Append(p, a)]
                  IN  /\ child.visit = 0
                      /\ child.value = RInt(0)
                      /\ lists[child.particles] = <<>>
                      /\ child.children = <<>>]_vars

\* what holds: the children are built with the defaults of __init__
C14_ExpandMakesDefaultChildren ==
    [][SimStep =>
        \A p \in Expanded :
            /\ OneChildPerAction(p)
            /\ \A a \in Action : tree'[Append(p, a)] = NewNode(a)]_vars

(***************************************************************************)
(* C15.  The original statement: every top-level simulate call expands     *)
(* exactly one node, and no node is expanded a second time.                *)
(***************************************************************************)
NeverExpandedAgain ==
    \A p \in DOMAIN tree :
        tree[p].children # <<>> => tree'[p].children = tree[p].children

C15_ExpandsExactlyOne ==
    [][SimStep => (Cardinality(Expanded) = 1 /\ NeverExpandedAgain)]_vars

(***************************************************************************)
(* C15, amended.  Every top-level simulate call expands at most one node:  *)
(* the node its descent ends at, when that node has no children and lies   *)
(* before the horizon, and no node when the descent ends at the horizon or *)
(* at a particle with no legal action in a node that has children.  The    *)
(* only nodes a call adds are the children of the node it expanded, and no *)
(* node is expanded a second time.                                         *)
(***************************************************************************)
\* the node the descent of the call ends at
DescentEnd ==
    CHOOSE p \in Selected \cup {Root} :
        \A q \in Selected \cup {Root} : Len(q) <= Len(p)

C15_ExpandsAtMostOne ==
    [][SimStep =>
        /\ Cardinality(Expanded) <= 1
        /\ Expanded = IF tree[DescentEnd].children = <<>>
                         /\ ~Horizon(Len(DescentEnd))
                      THEN {DescentEnd} ELSE {}
        /\ DOMAIN tree' \ DOMAIN tree =
              UNION {{Append(p, a) : a \in Action} : p \in Expanded}
        /\ NeverExpandedAgain]_vars

\* a simulation went into a node at the horizon and left it without children
C15_Witness ==
    /\ pc = "sim"
    /\ \E g \in DOMAIN tree :
          /\ Len(g) = LeastHorizon(0)
          /\ Len(tree[g].rets) >= 1
          /\ tree[g].children = <<>>

(***************************************************************************)
(* C16.  Horizon law: rollout and simulate, called with a depth d such     *)
(* that discount^d < epsilon, return exactly 0, whatever the particle      *)
(* (standing or not) and whatever the node (with children or without);     *)
(* simulate leaves the tree and the lists as they are.                     *)
(***************************************************************************)
Depths == 0..(MaxDepth + 1)
AtHorizon(d) == RLess(RPow(cfg.discount, d), cfg.epsilon)
KnownParticles ==
    UNION {{lists[l][k] : k \in 1..Len(lists[l])} : l \in DOMAIN lists}

C16_HorizonLaw ==
    \A d \in Depths :
        AtHorizon(d) =>
            \A part \in KnownParticles, draws \in Draws :
                /\ rollout(part, d, draws) = RInt(0)
                /\ \A p \in DOMAIN tree, ord \in Orders :
                      simulate(part, p, d, tree, lists, draws, ord) =
                          [ret |-> RInt(0), tree |-> tree, lists |-> lists]

\* a simulation of the call went into a node at a depth past the horizon,
\* and the law is there for particles that stand and that do not, for nodes
\* with children and without
C16_Witness ==
    /\ pc = "sim"
    /\ \E g \in DOMAIN tree :
          g # Root /\ AtHorizon(Len(g)) /\ Len(tree[g].rets) >= 1
    /\ \E part \in KnownParticles : part.stand
    /\ \E part \in KnownParticles : ~part.stand
    /\ \E p \in DOMAIN tree : tree[p].children = <<>>
    /\ \E p \in DOMAIN tree : tree[p].children # <<>>

(***************************************************************************)
(* C17.  For 0 < discount < 1 and epsilon > 0, every policy call on an     *)
(* observation with a legal action eventually returns (every simulate and  *)
(* rollout call of it ends within the horizon): the call ends, and a call  *)
(* that has ended has returned.  C17_CallReturns is the second half, which *)
(* a finite run settles; C17_CallEnds is the first, under SpecLive.        *)
(***************************************************************************)
BoundedHorizon ==
    /\ 0 < cfg.discount[1]
    /\ cfg.discount[1] < cfg.discount[2]
    /\ 0 < cfg.epsilon[1]

C17_CallReturns ==
    (pc \in {"done", "error"} /\ ~obs.stand /\ BoundedHorizon) => Returned

\* what holds: the call ends, in a return or in an exception of policy
C17_CallEnds ==
    (pc = "begin" /\ ~obs.stand /\ BoundedHorizon) ~> (Returned \/ Failed)

\* and for the agents with particles to sample it does return
C17_CallReturnsIfParticles ==
    (/\ pc = "begin" /\ ~obs.stand /\ BoundedHorizon
     /\ cfg.n_particles >= 1 /\ cfg.reinvigoration >= 1) ~> Returned

(***************************************************************************)
(* C18.  rollout, with all its recursive calls, creates no node and        *)
(* changes no field of a node and no list of particles: after a top-level  *)
(* simulate call that ran a rollout, the tree and the lists are what       *)
(* expand (line 80) and the statements of lines 93-97 of the callers made  *)
(* of them, and nothing else.  A node that existed and is not on the path  *)
(* is as it was; a new node is as expand built it; a node on the path has  *)
(* the statistics of its backups; the lists grew by one particle for each  *)
(* selection, and by nothing when the rollout started from the root.       *)
(***************************************************************************)
OnPath == Selected \cup {Root}
SelectedChild(p) == \E c \in Selected : Parent(c) = p
Last(s) == s[Len(s)]
TotalParticles(L) == Len(L[DefaultList]) + Len(L[RootList])

C18_RolloutLeavesTree ==
    [][(SimStep /\ Expanded # {}) =>
        /\ \A q \in DOMAIN tree' \ DOMAIN tree : tree'[q] = NewNode(Last(q))
        /\ \A p \in DOMAIN tree \ OnPath : tree'[p] = tree[p]
        /\ \A p \in OnPath :
              /\ tree'[p].particles = tree[p].particles
              /\ tree'[p].action = tree[p].action
              /\ p \notin Expanded => tree'[p].children = tree[p].children
              /\ tree'[p].visit = tree[p].visit
                    + (IF p \in Selected THEN 1 ELSE 0)
                    + (IF SelectedChild(p) THEN 1 ELSE 0)
              /\ p \notin Selected =>
                    (tree'[p].value = tree[p].value
                        /\ tree'[p].rets = tree[p].rets)
              /\ p \in Selected =>
                    /\ Len(tree'[p].rets) = Len(tree[p].rets) + 1
                    /\ tree'[p].value =
                          RAdd(tree[p].value,
                               RDivInt(RSub(Last(tree'[p].rets), tree[p].value),
                                       tree'[p].visit))
        /\ TotalParticles(lists') = TotalParticles(lists) + Cardinality(Selected)
        /\ \A l \in DOMAIN lists :
              SubSeq(lists'[l], 1, Len(lists[l])) = lists[l]]_vars

\* the first simulate of a call went from the root, which had no children,
\* into a rollout on a particle that does not stand
C18_Witness ==
    /\ pc = "sim"
    /\ loop_i = 1
    /\ calls = 1
    /\ ~obs.stand
    /\ ~AtHorizon(0)
    /\ tree[Root].children # <<>>
    /\ tree[Root].visit = DefaultVisit

(***************************************************************************)
(* C19.  Among children of the same largest score the child chosen is the  *)
(* one whose action comes first in Action (STAND before HIT): in policy,   *)
(* by value, and in simulate, by value + explore * ucb.                    *)
(***************************************************************************)
SameKey(c, d) ==
    ~KeyLess(tree, Parent(c), c, d) /\ ~KeyLess(tree, Parent(c), d, c)

C19_PolicyTieByEnumeration ==
    Returned =>
        \A a \in LegalChildren :
            oldtree[ChildOf(a)].value = oldtree[ChildOf(ret)].value => ret <= a

C19_SimulateTieByEnumeration ==
    [][SimStep =>
        \A c \in Selected :
            \A d \in Siblings(c) : SameKey(c, d) => Last(c) <= Last(d)]_vars

C19_TieByEnumeration ==
    []C19_PolicyTieByEnumeration /\ C19_SimulateTieByEnumeration

\* what holds: the first of the largest in the order the set iterates
C19_TieBySetOrder ==
    Returned =>
        \A a \in LegalChildren :
            oldtree[ChildOf(a)].value = oldtree[ChildOf(ret)].value =>
                \E j, k \in 1..Len(oldtree[Root].children) :
                    /\ oldtree[Root].children[j] = ret
                    /\ oldtree[Root].children[k] = a
                    /\ j <= k

(***************************************************************************)
(* The particles a rollout can be asked about: those in the lists and      *)
(* their successors under up to two actions, the ones that do not stand.   *)
(***************************************************************************)
ShortPaths ==
    {<<>>} \cup {<<a>> : a \in Action} \cup {<<a, b>> : a, b \in Action}
RolloutStates ==
    {s \in UNION {After(StateOf(part), path) :
                      part \in KnownParticles, path \in ShortPaths} : ~s.stand}
\* line 105: self.rollout_policy.policy(part.obs, {})
RolloutChoice(s) == DealerPolicy(s.hand, DealerN)

MaxScore == IF intIs THEN 22 ELSE 21

C21_ValueInRange ==
    BoundedHorizon =>
        \A p \in DOMAIN tree :
            /\ tree[p].visit >= 0
            /\ RLeq(RInt(0), tree[p].value)
            /\ RLeq(RMul(tree[p].value, RSub(RInt(1), cfg.discount)),
                    RInt(MaxScore))
            /\ \A part \in ParticlesOf(p) : Score(part.hand) <= MaxScore

\* a return larger than M, the scores of two steps discounted, was backed up
\* into a node more than once
C21_Witness ==
    /\ BoundedHorizon
    /\ \E p \in DOMAIN tree :
          /\ Len(tree[p].rets) >= 2
          /\ \A k \in 1..Len(tree[p].rets) :
                RLess(RInt(MaxScore), tree[p].rets[k])
          /\ RLess(RInt(0), tree[p].value)

(***************************************************************************)
(* C22.  In Simulator.run, under every configuration the constructor       *)
(* accepts, Shoe.sample is never called on an empty shoe: the assertion    *)
(* 'cannot sample from an empty shoe' never fails, in the deal of a round  *)
(* or in a draw for an agent's action.                                     *)
(***************************************************************************)
C22_NeverSamplesEmptyShoe == simpc # "assert"

\* the same of the runs whose cut is the default, a half
C22_NeverSamplesEmptyShoeAtHalf == sim.cut = <<1, 2>> => simpc # "assert"

====
